---- MODULE Spec2Model ----
(***************************************************************************)
(* State-machine model of mega-download: the command-line driver           *)
(* (mega-dl.py), the two session classes MegaDownloadFolder and            *)
(* MegaDownloadFile, the polling loop MegaCmdHelper.download_file_from_    *)
(* folder, the progress reporter thread and the FileUtils operations       *)
(* (megadownload.py, fileutils.py).  The transfer agent (mega-cmd), the    *)
(* router and the process runner's results are the environment: every      *)
(* external command returns one of SpawnResults, chosen nondeterministically.*)
(***************************************************************************)
EXTENDS Integers, Sequences, FiniteSets, TLC

\* ---------------------------------------------------------------- bounds
\* number of -l/--link arguments of one invocation
MaxLinks == 2
\* number of polls of one work item that find it RETRYING
MaxRetrying == 3

\* number of lines after the first line of a mega-transfers output
MaxLines == 2
\* longest inventory handed to the resolver on its own
MaxInventory == 3
\* number of calls of the resolver on one inventory and target folder
MaxRuns == 2

\* ------------------------------------------------------- data of the model
\* File names are sequences of characters (small integers), so that the
\* substring test `filename in file_destination` is computed, not assumed.
NameA == <<1>>
NameB == <<2>>

\* SpawnHelper.spawn: (spawn_status, exit code) of a command, or an exception
\* of pexpect.spawn / p.close(), which are outside the try block.
\*   "ok"      = (NO_ERROR, 0)          "nonzero" = (NO_ERROR, exit code # 0)
\*   "timeout" = (TIMEOUT, None)        "error"   = (UNEXPECTED_ERROR, _)
\*   "raised"  = spawn itself raised
\* What the command and the pseudo-terminal do during one call of spawn:
\* the command cannot be started (pexpect.spawn raises), it ends with exit
\* code 0 or another code, it does not end within the timeout, reading from
\* it fails, or closing it fails (p.close() raises)
ChildBehaviours == {"notstarted", "exit0", "exitN", "hangs", "readfails",
                    "closefails"}

\* SpawnHelper.spawn: only p.read() is inside the try block
spawn(child) ==
    CASE child = "notstarted" -> "raised"
      [] child = "hangs"      -> "timeout"
      [] child = "readfails"  -> "error"
      [] child = "closefails" -> "raised"
      [] child = "exitN"      -> "nonzero"
      [] OTHER                -> "ok"

SpawnResults == { spawn(child) : child \in ChildBehaviours }

\* The links the driver is given: MegaCmdHelper.is_file_link looks for a
\* substring of the link.
LinkShapes == {"mega.nz/file/", "mega.nz/folder/"}

is_file_link(link) == link = "mega.nz/file/" \/ link = "mega.nz/#!"

\* The remote inventories a folder link may list: (remote path, display
\* name, size in MB).  Two entries may carry the same display name.
Entry(p, n, s) == [path |-> p, name |-> n, size |-> s]

Inventories ==
    { << Entry(1, NameA, 2), Entry(2, NameB, 2) >>,
      << Entry(1, NameA, 1), Entry(2, NameA, 1) >> }

\* the longest inventory above
MaxQueue == 2

\* A file of a tmp folder: its display name, whether it is one of the agent's
\* '.'-prefixed partial files, and the work item whose transfer wrote it.
FileRec(n, p, i) == [name |-> n, part |-> p, item |-> i]

\* A file of the destination folder: from = "before" when it was there before
\* the run, else the status its work item had when the file was moved.
DestRec(n, p, st) == [name |-> n, part |-> p, from |-> st]

\* the real file name: a partial file's name starts with '.', written 0
FileName(f) == IF f.part THEN <<0>> \o f.name ELSE f.name

Preexisting == { {}, {DestRec(NameA, FALSE, "before")} }

\* the command-line configurations (router, password given)
Configs ==
    { [router |-> "fritzbox", password |-> FALSE],
      [router |-> "glinet",   password |-> TRUE],
      [router |-> "glinet",   password |-> FALSE],
      [router |-> "other",    password |-> FALSE] }

LinkSeqs == UNION { [1..n -> LinkShapes] : n \in 1..MaxLinks }

Links == 1..MaxLinks

VARIABLES
    \* --- command line (mega-dl.py:63-69) and the filesystem
    links, force_logout, config, targetExists,
    \* --- the driver
    pc,            \* position of the main thread
    linkIdx,       \* index of the link of the for loop
    bound,         \* session the global name mega_download refers to (0: none)
    excRef,        \* session kept alive only by the exception being handled
    \* --- sessions (objects of MegaDownloadFolder / MegaDownloadFile)
    sess,          \* per link: life, tmp folder, logout attempts
    tmpFiles,      \* per link: the files in the session's tmp folder
    dest,          \* the files in the destination folder
    \* --- the transfer agent and the router
    agentSession,  \* 0: logged out, -1: a stale session, i: logged in to link i
    serverUp,      \* mega-cmd-server is running
    xfer,          \* per work item of the current session: state of its transfer
    \* --- download_files / download_file
    queue, qi, dstatus, total_downloaded_data, status,
    retrying, kills, changeIps, starts,
    reporter,      \* per link: the progress thread started last
    probe,         \* the transfer get_file_info_from_link starts
    \* --- history
    ctor, dl, caught, worked,
    \* --- the clock of one folder link (SpecDeadline)
    overdue,       \* k: max_download_time ran out during the transfer of item k
    \* --- parse_mega_transfers_output on its own (SpecParser)
    emitted, output, download_infos, parserDone,
    \* --- _get_mega_download_paths_of_missing_files on its own (SpecResolver)
    inventory, target_folder, mega_download_paths, runs,
    \* --- list_all_files and the size probe on their own (SpecListing)
    listing,       \* what mega-find does: the child's behaviour, the files listed
    listed,        \* what list_all_files made of it
    progress,      \* the PROGRESS column get_file_info_from_link reads
    probed,        \* what the size probe made of it
    \* --- IpChangerGlinet.change_ip on its own (SpecGlinet)
    vpn,           \* the router: its groups and the peers of a group
    chip           \* the call of change_ip: position, outcome, what it did

\* the state of the program proper
mainVars == << links, force_logout, config, targetExists, pc, linkIdx, bound,
               excRef, sess, tmpFiles, dest, agentSession, serverUp, xfer,
               queue, qi, dstatus, total_downloaded_data, status,
               retrying, kills, changeIps, starts, reporter, probe,
               ctor, dl, caught, worked >>

\* the state of the function-level specifications
lsVars == << listing, listed, progress, probed >>

fnVars == << emitted, output, download_infos, parserDone,
             inventory, target_folder, mega_download_paths, runs, lsVars,
             vpn, chip >>

sideVars == << overdue, fnVars >>

vars == << mainVars, sideVars >>

NoSession == [life |-> "unborn", tmp |-> "none", logouts |-> 0,
              delLogouts |-> 0]

\* Python's None where the code holds a number otherwise
None == -1

\* change_ip of the glinet router has not been called
NotCalled == [pc |-> "lookup", outcome |-> "none", group_id |-> None,
              stops |-> 0, started |-> << >>, status |-> None,
              rounds |-> 0]

\* the glinet router is not exercised
GlIdle ==
    /\ vpn = [groups |-> << >>, peers |-> {}]
    /\ chip = NotCalled

\* the listing and the size probe are not exercised
LsIdle ==
    /\ listing = [child |-> "exit0", lines |-> << >>, eol |-> << "NL" >>]
    /\ listed = [done |-> FALSE]
    /\ progress = [value |-> 0, unit |-> "none"]
    /\ probed = [done |-> FALSE]

\* no function-level specification is running
FnIdle ==
    /\ LsIdle
    /\ GlIdle
    /\ emitted = << >>
    /\ output = << >> /\ download_infos = << >> /\ parserDone = FALSE
    /\ inventory = << >> /\ target_folder = {} /\ mega_download_paths = << >>
    /\ runs = 0

\* the script before its first statement
Started ==
    /\ serverUp = TRUE
    /\ pc = "main"
    /\ linkIdx = 0
    /\ bound = 0
    /\ excRef = 0
    /\ sess = [i \in Links |-> NoSession]
    /\ tmpFiles = [i \in Links |-> {}]
    /\ xfer = [i \in 1..MaxQueue |-> "none"]
    /\ queue = << >>
    /\ qi = 0
    /\ dstatus = << >>
    /\ total_downloaded_data = 0
    /\ status = "DOWNLOAD_FAILED"
    /\ retrying = 0 /\ kills = 0 /\ changeIps = 0 /\ starts = 0
    /\ reporter = [i \in Links |-> "none"]
    /\ probe = "none"
    /\ ctor = [i \in Links |-> "no"]
    /\ dl = [i \in Links |-> "no"]
    /\ caught = {}
    /\ worked = FALSE

Init ==
    /\ links \in LinkSeqs
    /\ force_logout \in BOOLEAN
    /\ config \in Configs
    /\ targetExists \in BOOLEAN
    /\ dest \in Preexisting
    /\ agentSession \in {0, -1}
    /\ Started
    /\ overdue = 0
    /\ FnIdle

cliVars == << links, force_logout, config, targetExists >>
itemVars == << retrying, kills, changeIps, starts >>
dlVars == << queue, qi, dstatus, total_downloaded_data, status, itemVars,
            probe >>

\* ------------------------------------------------ MegaCmdHelper wrappers
\* logout / login / list_all_files raise MegaDownloadException unless the
\* command completed with exit code 0 (megadownload.py:87-96, 121-132, 366-377)
CheckedRaises(r) == r # "ok"

\* kill_mega_cmd_server / start_mega_cmd_server: on a non-zero exit code the
\* exception object is built but not raised (megadownload.py:138-148, 156-168)
ServerCmdRaises(r) == r \in {"timeout", "error", "raised"}

\* what mega-ls can answer: exit code 0 exactly when a session is active
LsResults == IF agentSession # 0 THEN SpawnResults \ {"nonzero"}
                                 ELSE SpawnResults \ {"ok"}

\* mutant: a completed mega-ls is never taken for an active session
is_logged_in_never(r) == IF r \in {"ok", "nonzero"} THEN "false" ELSE "raise"

\* MegaCmdHelper.is_logged_in
is_logged_in(r) ==
    CASE r = "ok"      -> "true"
      [] r = "nonzero" -> "false"
      [] OTHER         -> "raise"

\* mega-dl.py:77-86, once is_logged_in() has answered False
RouterBranch ==
    IF config.router # "fritzbox" /\ config.router # "glinet" THEN "badrouter"
    ELSE IF config.router = "glinet" /\ ~config.password THEN "nopassword"
    ELSE "loop"

\* the for loop of mega-dl.py:87 after link i
AfterLink(i) == IF i + 1 > Len(links) THEN "shutdown" ELSE "construct"

\* ---------------------------------------------------------- finalization
\* __del__: MegaDownloadFolder logs out and then deletes the tmp folder, so a
\* MegaDownloadException of logout() (printed and ignored by the interpreter)
\* skips delete_folder; MegaDownloadFile only deletes the tmp folder.
\* mutant: the finalizer of a single-file session logs out as well
DelLogsOutAlways(link) == TRUE

DelLogsOut(link) == ~is_file_link(link)

DelDeletesFolder(link, r) == is_file_link(link) \/ r = "ok"

DelResults(link) == IF DelLogsOut(link) THEN SpawnResults ELSE {"ok"}

SessAfterDel(s, link, r) ==
    [ life |-> "finalized",
      tmp |-> IF DelDeletesFolder(link, r) THEN "deleted" ELSE s.tmp,
      logouts |-> s.logouts + (IF DelLogsOut(link) THEN 1 ELSE 0),
      delLogouts |-> s.delLogouts + (IF DelLogsOut(link) THEN 1 ELSE 0) ]

\* the state after the object of link i (0: no object) has been finalized
Finalized(i, r) ==
    IF i = 0 \/ sess[i].life # "alive"
    THEN /\ UNCHANGED << sess, tmpFiles, agentSession >>
    ELSE /\ sess' = [sess EXCEPT ![i] = SessAfterDel(sess[i], links[i], r)]
         /\ tmpFiles' = [tmpFiles EXCEPT
                ![i] = IF DelDeletesFolder(links[i], r) THEN {} ELSE @]
         /\ agentSession' =
                IF DelLogsOut(links[i]) /\ r = "ok" THEN 0 ELSE agentSession

FinalizeResults(i) ==
    IF i = 0 \/ sess[i].life # "alive" THEN {"ok"} ELSE DelResults(links[i])


\* the locals of download_files / download_file are gone when the call has
\* returned or raised; the agent's transfer list is empty for the next link
LocalsGone ==
    /\ queue' = << >>
    /\ qi' = 0
    /\ dstatus' = << >>
    /\ total_downloaded_data' = 0
    /\ status' = "DOWNLOAD_FAILED"
    /\ retrying' = 0 /\ kills' = 0 /\ changeIps' = 0 /\ starts' = 0
    /\ xfer' = [i \in 1..MaxQueue |-> "none"]

\* ------------------------------------------------------------ the driver
\* mega-dl.py:71-72
ForceLogout ==
    /\ pc = "main"
    /\ IF force_logout
       THEN \E r \in SpawnResults :
              /\ agentSession' = IF r = "ok" THEN 0 ELSE agentSession
              /\ pc' = IF CheckedRaises(r) THEN "crashed" ELSE "check"
       ELSE /\ pc' = "check"
            /\ UNCHANGED agentSession
    /\ UNCHANGED << sideVars, cliVars, linkIdx, bound, excRef, sess, tmpFiles, dest,
                    serverUp, xfer, dlVars, reporter, ctor, dl, caught, worked >>

\* mega-dl.py:74-86
StartupCheck ==
    /\ pc = "check"
    /\ \E r \in LsResults :
         LET li == is_logged_in(r) IN
         /\ pc' = CASE li = "raise" -> "crashed"
                    [] li = "true"  -> "aborted"
                    [] OTHER -> IF RouterBranch = "loop" THEN "construct"
                                ELSE RouterBranch
         /\ linkIdx' = IF li = "false" /\ RouterBranch = "loop" THEN 1 ELSE linkIdx
    /\ UNCHANGED << sideVars, cliVars, bound, excRef, sess, tmpFiles, dest, agentSession,
                    serverUp, xfer, dlVars, reporter, ctor, dl, caught, worked >>

\* every mega-* client command starts mega-cmd-server when it is not running
\* (start_mega_cmd_server relies on it: megadownload.py:152)
ServerAfter(r) == IF r = "raised" THEN serverUp ELSE TRUE

\* mutant: the constructor does not look at the target folder
CtorOutcomeAnyTarget(link, r1, r2) ==
    IF CheckedRaises(r1) THEN "logoutfail"
    ELSE IF ~is_file_link(link) /\ CheckedRaises(r2) THEN "loginfail"
    ELSE "ok"

\* MegaDownloadFolder.__init__ / MegaDownloadFile.__init__: r1 is the result of
\* logout(), r2 of login() (folder sessions only)
CtorOutcome(link, r1, r2) ==
    IF ~targetExists THEN "notarget"
    ELSE IF CheckedRaises(r1) THEN "logoutfail"
    ELSE IF ~is_file_link(link) /\ CheckedRaises(r2) THEN "loginfail"
    ELSE "ok"

CtorLoginResults(link, r1) ==
    IF targetExists /\ ~CheckedRaises(r1) /\ ~is_file_link(link)
    THEN SpawnResults ELSE {"ok"}

\* mega-dl.py:89-95, the constructor call
Construct ==
    /\ pc = "construct"
    /\ \E r1 \in (IF targetExists THEN SpawnResults ELSE {"ok"}) :
       \E r2 \in CtorLoginResults(links[linkIdx], r1) :
         LET i == linkIdx
             out == CtorOutcome(links[i], r1, r2)
         IN
         /\ sess' = [sess EXCEPT ![i] =
                [ life |-> "alive", tmp |-> "exists",
                  logouts |-> IF out = "notarget" THEN 0 ELSE 1,
                  delLogouts |-> 0 ]]
         /\ agentSession' =
                CASE out = "ok" -> IF is_file_link(links[i]) THEN 0 ELSE i
                  [] out = "loginfail" -> 0
                  [] OTHER -> agentSession
         /\ serverUp' = IF out = "notarget" THEN serverUp ELSE ServerAfter(r1)
         /\ worked' = (worked \/ (out \in {"ok", "loginfail"}
                                    /\ ~is_file_link(links[i])))
         /\ ctor' = [ctor EXCEPT ![i] = IF out = "ok" THEN "ok" ELSE "failed"]
         /\ excRef' = IF out = "ok" THEN 0 ELSE i
         /\ pc' = IF out = "ok" THEN "bind" ELSE "handler"
    /\ UNCHANGED << sideVars, cliVars, linkIdx, bound, tmpFiles, dest, xfer, dlVars,
                    reporter, dl, caught >>

\* mega-dl.py:90 / 93: the name mega_download is bound to the new object; the
\* object it referred to until now loses its last reference and is finalized
Bind ==
    /\ pc = "bind"
    /\ \E r \in FinalizeResults(bound) : Finalized(bound, r)
    /\ bound' = linkIdx
    /\ dl' = [dl EXCEPT ![linkIdx] = "started"]
    /\ pc' = IF is_file_link(links[linkIdx]) THEN "s_info" ELSE "f_list"
    /\ UNCHANGED << sideVars, cliVars, linkIdx, excRef, dest, serverUp, xfer, dlVars,
                    reporter, ctor, caught, worked >>

\* mutant: the except clause leaves the for loop
AfterExceptionBreak(i) == "shutdown"

\* where the for loop goes after an exception of link i: both except clauses
\* of mega-dl.py:98-108 print and fall through to the next iteration
AfterException(i) == AfterLink(i)

\* mega-dl.py:98-108: the exception is printed; when the except clause ends the
\* traceback is released, and with it an object whose constructor raised
Handler ==
    /\ pc = "handler"
    /\ \E r \in FinalizeResults(excRef) : Finalized(excRef, r)
    /\ excRef' = 0
    /\ caught' = caught \cup {linkIdx}
    /\ dl' = [dl EXCEPT ![linkIdx] = IF @ = "started" THEN "raised" ELSE @]
    /\ pc' = AfterException(linkIdx)
    /\ linkIdx' = linkIdx + 1
    /\ LocalsGone
    /\ UNCHANGED << sideVars, cliVars, bound, dest, serverUp, probe, reporter,
                    ctor, worked >>

\* mega-dl.py:97: del mega_download
DelSession ==
    /\ pc = "f_del"
    /\ \E r \in FinalizeResults(bound) : Finalized(bound, r)
    /\ bound' = 0
    /\ pc' = AfterLink(linkIdx)
    /\ linkIdx' = linkIdx + 1
    /\ LocalsGone
    /\ UNCHANGED << sideVars, cliVars, excRef, dest, serverUp, probe, reporter,
                    ctor, dl, caught, worked >>

\* interpreter exit: the non-daemon reporter threads are joined, then the
\* object still bound to mega_download is finalized
Shutdown ==
    /\ pc = "shutdown"
    /\ \A i \in Links : reporter[i] # "running"
    /\ \E r \in FinalizeResults(bound) : Finalized(bound, r)
    /\ bound' = 0
    /\ pc' = "exit"
    /\ UNCHANGED << sideVars, cliVars, linkIdx, excRef, dest, serverUp, xfer, dlVars,
                    reporter, ctor, dl, caught, worked >>

\* ------------------------------------------------------------ filesystem
\* FileUtils.folder_contains_file
folder_contains_file(folder, file_name) ==
    \E f \in folder : FileName(f) = file_name

\* FileUtils.remove_mega_tmp_files: the files whose name starts with '.'
remove_mega_tmp_files(folder) == { f \in folder : ~f.part }

\* FileUtils.move_files_to_destination: every file of the source folder is
\* moved, replacing a destination file of the same name
move_files_to_destination(source, destination) ==
    { g \in destination : \A f \in source : FileName(f) # FileName(g) }
        \cup source

\* a file written into a folder replaces the file of the same name
WriteFile(folder, f) == { g \in folder : FileName(g) # FileName(f) } \cup {f}

\* ---------------------------------------------------- the transfer agent
\* `filename in file_destination`: the substring test of Python
Contains(hay, needle) ==
    \E k \in 0..(Len(hay) - Len(needle)) :
        SubSeq(hay, k + 1, k + Len(needle)) = needle

\* DESTINYPATH of the transfer of a file: the tmp folder (written 9) and
\* the file's name
file_destination(name) == <<9>> \o name

RECURSIVE RecordsFrom(_, _)
RecordsFrom(i, shown) ==
    IF i > Len(queue) THEN << >>
    ELSE (IF xfer[i] \in shown
          THEN << [dest |-> file_destination(queue[i].name), state |-> xfer[i]] >>
          ELSE << >>) \o RecordsFrom(i + 1, shown)

\* the records of mega-transfers: the transfers under way
ActiveRecords == RecordsFrom(1, {"ACTIVE", "RETRYING"})

\* the records of mega-transfers --show-completed
AllRecords ==
    RecordsFrom(1, {"ACTIVE", "RETRYING", "COMPLETING", "COMPLETED", "FAILED"})

\* the agent's own steps on a transfer
AgentNext(state) ==
    CASE state = "ACTIVE"     -> {"RETRYING", "COMPLETING", "FAILED"}
      [] state = "RETRYING"   -> {"ACTIVE"}
      [] state = "COMPLETING" -> {"COMPLETED"}
      [] OTHER                -> {}

DownloadPcs == {"f_start", "f_poll", "q_kill", "q_chip", "q_start", "f_showc",
                "f_join", "s_wait", "s_join"}

\* the agent moves a transfer of the current session on; completing it
\* renames the partial file to the file's name
AgentProgress ==
    /\ pc \in DownloadPcs
    /\ serverUp
    /\ \E i \in 1..Len(queue) : \E st \in AgentNext(xfer[i]) :
         /\ xfer' = [xfer EXCEPT ![i] = st]
         /\ tmpFiles' = [tmpFiles EXCEPT ![linkIdx] =
                IF st = "COMPLETED" /\ sess[linkIdx].tmp = "exists"
                THEN WriteFile(@ \ {FileRec(queue[i].name, TRUE, i)},
                               FileRec(queue[i].name, FALSE, i))
                ELSE @]
    /\ UNCHANGED << sideVars, cliVars, pc, linkIdx, bound, excRef, sess, dest,
                    agentSession, serverUp, dlVars, reporter, ctor, dl,
                    caught, worked >>

Min(S) == CHOOSE x \in S : \A y \in S : x <= y

\* ------------------------------------------- MegaDownloadFolder.download_files
\* mutant: the resolver returns the whole inventory
missing_files_all(entries, folder) == entries

\* _get_mega_download_paths_of_missing_files
missing_files(entries, folder) ==
    SelectSeq(entries, LAMBDA e : ~folder_contains_file(folder, e.name))

\* mega-find and mega-get of a path need the agent to be logged in to the link
LoggedInResults(i) ==
    IF agentSession = i THEN SpawnResults ELSE SpawnResults \ {"ok"}

\* megadownload.py:565-570: list_all_files, the resolver, get_ip_changer
ListAndResolve ==
    /\ pc = "f_list"
    /\ \E r \in LoggedInResults(linkIdx) :
         IF CheckedRaises(r)
         THEN /\ pc' = "handler"
              /\ UNCHANGED << queue, qi, dl >>
         ELSE \E inv \in Inventories :
              /\ queue' = missing_files(inv, dest)
              /\ qi' = 1
              /\ pc' = IF queue' # << >> THEN "f_start" ELSE "f_del"
              /\ dl' = [dl EXCEPT ![linkIdx] =
                            IF queue' # << >> THEN @ ELSE "returned"]
    /\ xfer' = [i \in 1..MaxQueue |-> "none"]
    /\ total_downloaded_data' = 0
    /\ UNCHANGED << sideVars, cliVars, linkIdx, bound, excRef, sess, tmpFiles, dest,
                    agentSession, serverUp, dstatus, status, itemVars, probe,
                    reporter, ctor, caught, worked >>

\* megadownload.py:572-575 and 287-296: the reporter thread is started and
\* download_file_from_folder issues mega-get -q
StartItem ==
    /\ pc = "f_start"
    /\ reporter' = [reporter EXCEPT ![linkIdx] = "running"]
    /\ status' = "DOWNLOAD_FAILED"
    /\ retrying' = 0 /\ kills' = 0 /\ changeIps' = 0 /\ starts' = 0
    /\ worked' = TRUE
    /\ \E r \in LoggedInResults(linkIdx) :
         /\ pc' = CASE r = "raised" -> "handler"
                    [] r = "ok"     -> "f_poll"
                    [] OTHER        -> "f_join"
         /\ serverUp' = ServerAfter(r)
         /\ xfer' = [xfer EXCEPT ![qi] = IF r = "ok" THEN "ACTIVE" ELSE @]
         /\ tmpFiles' = [tmpFiles EXCEPT ![linkIdx] =
                IF r = "ok"
                THEN WriteFile(@, FileRec(queue[qi].name, TRUE, qi))
                ELSE @]
    /\ UNCHANGED << sideVars, cliVars, linkIdx, bound, excRef, sess, dest, agentSession,
                    queue, qi, dstatus, total_downloaded_data, probe,
                    ctor, dl, caught >>

\* megadownload.py:306-317: the first record whose destination contains the
\* file's name decides
FirstMatch(records, filename) ==
    LET hits == { k \in 1..Len(records) : Contains(records[k].dest, filename) }
    IN IF hits = {} THEN 0 ELSE Min(hits)

\* the state the poll reports for the file ("none": no record of it)
MatchedState(records, filename) ==
    LET k == FirstMatch(records, filename)
    IN IF k = 0 THEN "none" ELSE records[k].state

\* mutant: the quota reaction also starts for a transfer that is ACTIVE
PollDecisionAnyState(state) ==
    IF state \in {"RETRYING", "ACTIVE"} THEN "quota" ELSE "again"

\* megadownload.py:309: the quota reaction is for RETRYING alone
PollDecision(state) == IF state = "RETRYING" THEN "quota" ELSE "again"

\* megadownload.py:330-344: records of other states are passed over; the
\* first COMPLETED or COMPLETING record of the file decides
ShowCompletedDecision(records, filename) ==
    LET hits == { k \in 1..Len(records) :
                    /\ Contains(records[k].dest, filename)
                    /\ records[k].state \in {"COMPLETED", "COMPLETING"} }
    IN IF hits = {} THEN "failed"
       ELSE IF records[Min(hits)].state = "COMPLETED" THEN "NO_ERROR"
       ELSE "completing"

\* megadownload.py:297-320, 345-354: one poll of mega-transfers.  The output
\* is the table of the transfers under way, empty when there is none, or
\* text the parser finds no record in ("garbage")
PollWith(r, garbage) ==
    /\ pc = "f_poll"
    /\   LET recs == ActiveRecords
             seen == MatchedState(recs, queue[qi].name)
             d == PollDecision(seen)
             polled == r = "ok" /\ ~garbage /\ recs # << >>
         IN
         /\ serverUp' = ServerAfter(r)
         /\ pc' = CASE r = "raised" -> "handler"
                    [] r # "ok"     -> "f_join"
                    [] garbage      -> "f_join"
                    [] recs = << >> -> "f_showc"
                    [] d = "quota"  -> "q_kill"
                    [] OTHER        -> "f_poll"
         /\ retrying' = IF polled /\ seen = "RETRYING" THEN retrying + 1
                        ELSE retrying
         /\ retrying' <= MaxRetrying
    /\ UNCHANGED << sideVars, cliVars, linkIdx, bound, excRef, sess, tmpFiles, dest,
                    agentSession, xfer, queue, qi, dstatus,
                    total_downloaded_data, status, kills, changeIps, starts,
                    probe, reporter, ctor, dl, caught, worked >>

Poll == \E r \in SpawnResults : \E garbage \in BOOLEAN : PollWith(r, garbage)

\* megadownload.py:321-347: the query with --show-completed.  A query that
\* timed out or could not be run has no branch of its own: the loop sleeps
\* and polls again
ShowCompletedWith(r) ==
    /\ pc = "f_showc"
    /\   LET d == ShowCompletedDecision(AllRecords, queue[qi].name) IN
         /\ serverUp' = ServerAfter(r)
         /\ pc' = CASE r = "raised"  -> "handler"
                    [] r = "nonzero" -> "f_join"
                    [] r # "ok"      -> "f_poll"
                    [] d = "completing" -> "f_poll"
                    [] OTHER         -> "f_join"
         /\ status' = IF r = "ok" /\ d = "NO_ERROR" THEN "NO_ERROR" ELSE status
    /\ UNCHANGED << sideVars, cliVars, linkIdx, bound, excRef, sess, tmpFiles, dest,
                    agentSession, xfer, queue, qi, dstatus,
                    total_downloaded_data, itemVars, probe, reporter,
                    ctor, dl, caught, worked >>

ShowCompleted == \E r \in SpawnResults : ShowCompletedWith(r)

\* megadownload.py:310: kill_mega_cmd_server (pkill exits 0 when it killed
\* the server)
QuotaKill ==
    /\ pc = "q_kill"
    /\ \E r \in SpawnResults :
         /\ pc' = IF ServerCmdRaises(r) THEN "handler" ELSE "q_chip"
         /\ kills' = kills + 1
         /\ serverUp' = IF r = "ok" THEN FALSE ELSE serverUp
    /\ UNCHANGED << sideVars, cliVars, linkIdx, bound, excRef, sess, tmpFiles, dest,
                    agentSession, xfer, queue, qi, dstatus,
                    total_downloaded_data, status, retrying, changeIps,
                    starts, probe, reporter, ctor, dl, caught, worked >>

\* megadownload.py:312: ip_changer.change_ip() returns or raises
\* ChangeIpException
QuotaChangeIp ==
    /\ pc = "q_chip"
    /\ changeIps' = changeIps + 1
    /\ worked' = TRUE
    /\ \E changed \in BOOLEAN : pc' = IF changed THEN "q_start" ELSE "handler"
    /\ UNCHANGED << sideVars, cliVars, linkIdx, bound, excRef, sess, tmpFiles, dest,
                    agentSession, serverUp, xfer, queue, qi, dstatus,
                    total_downloaded_data, status, retrying, kills,
                    starts, probe, reporter, ctor, dl, caught >>

\* megadownload.py:315-317, 348: start_mega_cmd_server, then the next poll
QuotaRestart ==
    /\ pc = "q_start"
    /\ \E r \in SpawnResults :
         /\ pc' = IF ServerCmdRaises(r) THEN "handler" ELSE "f_poll"
         /\ serverUp' = ServerAfter(r)
    /\ starts' = starts + 1
    /\ UNCHANGED << sideVars, cliVars, linkIdx, bound, excRef, sess, tmpFiles, dest,
                    agentSession, xfer, queue, qi, dstatus,
                    total_downloaded_data, status, retrying, kills,
                    changeIps, probe, reporter, ctor, dl, caught, worked >>

\* the files of a tmp folder as they arrive in the destination: each keeps
\* the status of the work item that wrote it
Arriving(tmp, statuses) ==
    { DestRec(f.name, f.part, statuses[f.item]) : f \in tmp }

\* megadownload.py:581-590: what download_files does with the tmp folder and
\* the destination once the item's status is known
FolderAfterItem(st, tmp, arriving, destination) ==
    IF st = "NO_ERROR"
    THEN [tmp |-> {}, dest |-> move_files_to_destination(arriving, destination)]
    ELSE [tmp |-> remove_mega_tmp_files(tmp), dest |-> destination]

\* mutant: download_files returns after the first item
NextItemPcReturn(k, n) == "f_del"

\* megadownload.py:571: the for loop after item k of a queue of n items
NextItemPc(k, n) == IF k < n THEN "f_start" ELSE "f_del"

\* megadownload.py:576-591: join the reporter, record the status, move or
\* purge, go to the next item or return
JoinAndRecord ==
    /\ pc = "f_join"
    /\ reporter[linkIdx] # "running"
    /\ dstatus' = Append(dstatus, (<< queue[qi].path, status >>))
    /\ LET arriving == Arriving(tmpFiles[linkIdx],
                                [k \in 1..qi |-> dstatus'[k][2]])
           after == FolderAfterItem(status, tmpFiles[linkIdx], arriving, dest)
       IN
         /\ tmpFiles' = [tmpFiles EXCEPT ![linkIdx] = after.tmp]
         /\ dest' = after.dest
    /\ total_downloaded_data' =
         IF status = "NO_ERROR" THEN total_downloaded_data + queue[qi].size
         ELSE total_downloaded_data
    /\ pc' = NextItemPc(qi, Len(queue))
    /\ qi' = qi + 1
    /\ dl' = [dl EXCEPT ![linkIdx] =
                IF NextItemPc(qi, Len(queue)) = "f_del" THEN "returned" ELSE @]
    /\ UNCHANGED << sideVars, cliVars, linkIdx, bound, excRef, sess, agentSession,
                    serverUp, xfer, queue, status, itemVars, probe, reporter,
                    ctor, caught, worked >>

\* ------------------------------------------- MegaCmdHelper.print_progress
\* pgrep finds the server exactly when it is running
PgrepResults == IF serverUp THEN SpawnResults \ {"nonzero"}
                            ELSE SpawnResults \ {"ok"}

\* megadownload.py:227-255, one round of the loop: "running" to go round
\* again, "ended" when the loop is left or the thread dies of an exception
ReporterRound(r1, r2, records) ==
    IF r1 = "raised" THEN "ended"
    ELSE IF r1 = "nonzero" THEN "running"
    ELSE IF r2 # "ok" THEN "ended"
    ELSE IF records = << >> THEN "ended"
    ELSE "running"

ReporterPollWith(k, r1, r2) ==
    /\ reporter[k] = "running"
    /\   /\ reporter' = [reporter EXCEPT
                ![k] = ReporterRound(r1, r2, ActiveRecords)]
         /\ serverUp' = IF r1 \in {"raised", "nonzero"} THEN serverUp
                        ELSE ServerAfter(r2)
    /\ UNCHANGED << sideVars, cliVars, pc, linkIdx, bound, excRef, sess, tmpFiles, dest,
                    agentSession, xfer, dlVars, ctor, dl, caught, worked >>

ReporterPoll(k) ==
    \E r1 \in PgrepResults :
    \E r2 \in (IF r1 \in {"raised", "nonzero"} THEN {"ok"} ELSE SpawnResults) :
        ReporterPollWith(k, r1, r2)

\* --------------------------------------------- MegaDownloadFile.download_file
\* the file a file link holds: (name, size) as get_file_info_from_link reads it
FileEntries == { Entry(0, NameA, 2) }

\* MegaCmdHelper.get_file_info_from_link: r1 is the result of mega-get -q,
\* r2 of mega-transfers, parsed what its output holds ("record", "empty": no
\* record, "nosize": a record without a size), r3 of mega-transfers -c -a
InfoRaises(r1, r2, parsed, r3) ==
    \/ r1 # "ok"
    \/ r2 # "ok"
    \/ parsed # "record"
    \/ r3 # "ok"

\* the probe transfer: started by mega-get -q, cancelled by mega-transfers -c -a,
\* which is reached only when nothing raised before it
ProbeAfter(r1, r2, parsed, r3) ==
    IF r1 # "ok" THEN probe
    ELSE IF r2 = "ok" /\ parsed = "record" /\ r3 = "ok" THEN "cancelled"
    ELSE "active"

\* megadownload.py:444-450
GetFileInfo ==
    /\ pc = "s_info"
    /\ \E r1 \in SpawnResults :
       \E r2 \in (IF r1 = "ok" THEN SpawnResults ELSE {"ok"}) :
       \E parsed \in (IF r1 = "ok" /\ r2 = "ok"
                      THEN {"record", "empty", "nosize"} ELSE {"record"}) :
       \E r3 \in (IF r1 = "ok" /\ r2 = "ok" /\ parsed = "record"
                  THEN SpawnResults ELSE {"ok"}) :
       \E e \in FileEntries :
         /\ probe' = ProbeAfter(r1, r2, parsed, r3)
         /\ pc' = IF InfoRaises(r1, r2, parsed, r3) THEN "handler" ELSE "s_chip"
         /\ queue' = IF InfoRaises(r1, r2, parsed, r3) THEN queue ELSE << e >>
         /\ serverUp' = ServerAfter(r1)
    /\ qi' = 1
    /\ status' = "DOWNLOAD_FAILED"
    /\ retrying' = 0 /\ kills' = 0 /\ changeIps' = 0 /\ starts' = 0
    /\ xfer' = [i \in 1..MaxQueue |-> "none"]
    /\ worked' = TRUE
    /\ UNCHANGED << sideVars, cliVars, linkIdx, bound, excRef, sess, tmpFiles, dest,
                    agentSession, dstatus, total_downloaded_data, reporter,
                    ctor, dl, caught >>

\* megadownload.py:451-452
FileChangeIp ==
    /\ pc = "s_chip"
    /\ changeIps' = changeIps + 1
    /\ worked' = TRUE
    /\ \E changed \in BOOLEAN : pc' = IF changed THEN "s_get" ELSE "handler"
    /\ UNCHANGED << sideVars, cliVars, linkIdx, bound, excRef, sess, tmpFiles, dest,
                    agentSession, serverUp, xfer, queue, qi, dstatus,
                    total_downloaded_data, status, retrying, kills,
                    starts, probe, reporter, ctor, dl, caught >>

\* megadownload.py:453-465: the reporter is started and mega-get is spawned
FileGetStart ==
    /\ pc = "s_get"
    /\ reporter' = [reporter EXCEPT ![linkIdx] = "running"]
    /\ worked' = TRUE
    /\ \E spawned \in BOOLEAN :
         /\ pc' = IF spawned THEN "s_wait" ELSE "handler"
         /\ xfer' = [xfer EXCEPT ![1] = IF spawned THEN "ACTIVE" ELSE @]
         /\ tmpFiles' = [tmpFiles EXCEPT ![linkIdx] =
                IF spawned
                THEN WriteFile(@, FileRec(queue[1].name, TRUE, 1))
                ELSE @]
         /\ serverUp' = IF spawned THEN TRUE ELSE serverUp
    /\ UNCHANGED << sideVars, cliVars, linkIdx, bound, excRef, sess, dest, agentSession,
                    dlVars, ctor, dl, caught >>

\* MegaCmdHelper.mega_get: the status of a transfer from the spawn result
mega_get(r) ==
    CASE r = "ok"      -> "NO_ERROR"
      [] r = "timeout" -> "TIMEOUT_EXCEEDED"
      [] OTHER         -> "DOWNLOAD_FAILED"

\* the blocking mega-get exits with code 0 when the transfer has completed
\* and with another code when it has failed; it times out while the
\* transfer is under way
GetResults(state) ==
    CASE state = "COMPLETED" -> {"ok", "error", "raised"}
      [] state = "FAILED"    -> {"nonzero", "error", "raised"}
      [] OTHER               -> {"nonzero", "timeout", "error", "raised"}

\* megadownload.py:463-468: mega_get returns
FileGetEnd ==
    /\ pc = "s_wait"
    /\ \E r \in GetResults(xfer[1]) :
         /\ pc' = IF r = "raised" THEN "handler" ELSE "s_join"
         /\ status' = IF r = "raised" THEN status ELSE mega_get(r)
    /\ UNCHANGED << sideVars, cliVars, linkIdx, bound, excRef, sess, tmpFiles, dest,
                    agentSession, serverUp, xfer, queue, qi, dstatus,
                    total_downloaded_data, itemVars, probe, reporter,
                    ctor, dl, caught, worked >>

\* megadownload.py:470-500: NO_ERROR moves the tmp folder's files, the two
\* other statuses purge the partial files
FileAfterTransfer(st, tmp, arriving, destination) ==
    IF st = "NO_ERROR"
    THEN [tmp |-> {}, dest |-> move_files_to_destination(arriving, destination)]
    ELSE [tmp |-> remove_mega_tmp_files(tmp), dest |-> destination]

\* megadownload.py:470-501: how download_file ends for each status: every
\* branch falls through to `return status`
FileEnds(st) == "return"

\* megadownload.py:469-501 and mega-dl.py:91: join, move or purge, return;
\* the driver goes to the next link with the object still bound
FileFinish ==
    /\ pc = "s_join"
    /\ reporter[linkIdx] # "running"
    /\ LET arriving == Arriving(tmpFiles[linkIdx], << status >>)
           after == FileAfterTransfer(status, tmpFiles[linkIdx], arriving, dest)
       IN
         /\ tmpFiles' = [tmpFiles EXCEPT ![linkIdx] = after.tmp]
         /\ dest' = after.dest
    /\ IF FileEnds(status) = "return"
       THEN /\ dl' = [dl EXCEPT ![linkIdx] = "returned"]
            /\ pc' = AfterLink(linkIdx)
            /\ linkIdx' = linkIdx + 1
            /\ LocalsGone
       ELSE /\ pc' = "handler"
            /\ UNCHANGED << dl, linkIdx, queue, qi, dstatus,
                            total_downloaded_data, status, itemVars, xfer >>
    /\ UNCHANGED << sideVars, cliVars, bound, excRef, sess, agentSession, serverUp,
                    probe, reporter, ctor, caught, worked >>

\* ------------------------------------------------------------ the program
Next ==
    \/ ForceLogout
    \/ StartupCheck
    \/ Construct
    \/ Bind
    \/ Handler
    \/ DelSession
    \/ Shutdown
    \/ ListAndResolve
    \/ StartItem
    \/ Poll
    \/ ShowCompleted
    \/ QuotaKill
    \/ QuotaChangeIp
    \/ QuotaRestart
    \/ JoinAndRecord
    \/ AgentProgress
    \/ \E k \in Links : ReporterPoll(k)
    \/ GetFileInfo
    \/ FileChangeIp
    \/ FileGetStart
    \/ FileGetEnd
    \/ FileFinish

Spec == Init /\ [][Next]_vars

\* ------------------------------------------- one folder link with a clock
\* max_download_time (megadownload.py:527) runs out while the transfer of the
\* current item is under way; time is the environment's
DeadlinePasses ==
    /\ pc \in {"f_poll", "q_kill", "q_chip", "q_start", "f_showc"}
    /\ xfer[qi] \in {"ACTIVE", "RETRYING"}
    /\ overdue = 0
    /\ overdue' = qi
    /\ UNCHANGED << mainVars, fnVars >>

\* mega-dl.py -l <folder link> -r fritzbox, the target folder exists
InitDeadline ==
    /\ links = << "mega.nz/folder/" >>
    /\ force_logout = FALSE
    /\ config = [router |-> "fritzbox", password |-> FALSE]
    /\ targetExists = TRUE
    /\ dest \in Preexisting
    /\ agentSession = 0
    /\ Started
    /\ overdue = 0
    /\ FnIdle

NextDeadline ==
    \/ ForceLogout
    \/ StartupCheck
    \/ Construct
    \/ Bind
    \/ Handler
    \/ DelSession
    \/ Shutdown
    \/ ListAndResolve
    \/ StartItem
    \/ Poll
    \/ ShowCompleted
    \/ QuotaKill
    \/ QuotaChangeIp
    \/ QuotaRestart
    \/ JoinAndRecord
    \/ AgentProgress
    \/ \E k \in Links : ReporterPoll(k)
    \/ DeadlinePasses

SpecDeadline == InitDeadline /\ [][NextDeadline]_vars

\* ------------------------------------------------ the resolver on its own
\* the program is not running while a function is exercised on its own
MainIdle ==
    /\ links = << "mega.nz/folder/" >>
    /\ force_logout = FALSE
    /\ config = [router |-> "fritzbox", password |-> FALSE]
    /\ targetExists = TRUE
    /\ dest = {}
    /\ agentSession = 0
    /\ Started
    /\ overdue = 0

\* entries of list_all_files: two display names, two remote paths
InventoryEntries == { Entry(p, n, 1) : p \in 1..2, n \in {NameA, NameB} }

ResolverInventories ==
    UNION { [1..n -> InventoryEntries] : n \in 0..MaxInventory }

\* a file somewhere under the target folder: dir = 0 in the folder itself,
\* dir = 1 in a subfolder (os.walk visits both)
TargetFile(n, p, d) == [name |-> n, part |-> p, from |-> "before", dir |-> d]

TargetFiles ==
    { TargetFile(NameA, FALSE, 0), TargetFile(NameA, TRUE, 0),
      TargetFile(NameB, FALSE, 1), TargetFile(NameB, TRUE, 1) }

\* mutant: the resolver leaves a placeholder for every missing file
ResolverCreates(folder, found) ==
    folder \cup { TargetFile(found[k].name, FALSE, 0) : k \in 1..Len(found) }

\* megadownload.py:538-557 only reads the target folder (and prints)
ResolverLeaves(folder, found) == folder

InitResolver ==
    /\ MainIdle
    /\ emitted = << >>
    /\ output = << >> /\ download_infos = << >> /\ parserDone = FALSE
    /\ inventory \in ResolverInventories
    /\ target_folder \in SUBSET TargetFiles
    /\ mega_download_paths = << >>
    /\ runs = 0
    /\ LsIdle
    /\ GlIdle

\* one call of _get_mega_download_paths_of_missing_files
Resolve ==
    /\ runs < MaxRuns
    /\ runs' = runs + 1
    /\ mega_download_paths' = missing_files(inventory, target_folder)
    /\ target_folder' = ResolverLeaves(target_folder, mega_download_paths')
    /\ UNCHANGED << mainVars, overdue, emitted, output, download_infos,
                    parserDone, inventory, lsVars, vpn, chip >>

NextResolver == Resolve

SpecResolver == InitResolver /\ [][NextResolver]_vars

\* ------------------------------------- parse_mega_transfers_output on its own
\* Texts are sequences of characters.  "NL", "CR" and "SP" are the newline,
\* the carriage return and the blank; a word that is only ever compared as a
\* whole is written as one character ("DESTINYPATH", "COMPLETED", ...), and
\* ACTIVE is written in two pieces so that a piece of a state name exists.
Whitespace == {"SP", "NL", "CR"}

\* the column separator '|||'
Sep == << "|", "|", "|" >>

\* megadownload.py:260-262: valid_states is one string
valid_states ==
    << "QUEUED", "|", "ACT", "IVE", "|", "PAUSED", "|", "RETRYING", "|",
       "COMPLETING", "|", "COMPLETED", "|", "CANCELLED", "|", "FAILED" >>

\* str.strip()
RECURSIVE lstrip(_)
lstrip(s) == IF s # << >> /\ Head(s) \in Whitespace THEN lstrip(Tail(s)) ELSE s

RECURSIVE rstrip(_)
rstrip(s) ==
    IF s # << >> /\ s[Len(s)] \in Whitespace
    THEN rstrip(SubSeq(s, 1, Len(s) - 1)) ELSE s

strip(s) == rstrip(lstrip(s))

\* str.replace(old, "")
replace(s, old) == SelectSeq(s, LAMBDA c : c # old)

\* str.split(sep): the separators are found from left to right
RECURSIVE split(_, _)
split(s, sep) ==
    LET hits == { k \in 1..(Len(s) - Len(sep) + 1) :
                    SubSeq(s, k, k + Len(sep) - 1) = sep }
    IN IF hits = {} THEN << s >>
       ELSE << SubSeq(s, 1, Min(hits) - 1) >>
                \o split(SubSeq(s, Min(hits) + Len(sep), Len(s)), sep)

\* mutant: any three columns are taken for the header
HeaderOkAny(col_name) == Len(col_name) = 3

\* megadownload.py:271-276
HeaderOk(col_name) ==
    /\ Len(col_name) = 3
    /\ col_name[1] = << "DESTINYPATH" >>
    /\ col_name[2] = << "STATE" >>
    /\ col_name[3] = << "PROGRESS" >>

\* megadownload.py:279: `download_info[1] in valid_states` is a substring test
RecordOk(download_info) ==
    Len(download_info) = 3 /\ Contains(valid_states, download_info[2])

\* MegaCmdHelper.parse_mega_transfers_output
parse_mega_transfers_output(out) ==
    LET entries == split(replace(strip(out), "CR"), << "NL" >>)
        hits == { i \in 1..Len(entries) : Contains(entries[i], Sep) }
        start_index == IF hits = {} THEN 1 ELSE Min(hits)
        col_name == split(entries[start_index], Sep)
    IN IF Len(entries) > 1 /\ HeaderOk(col_name)
       THEN SelectSeq([ j \in 1..(Len(entries) - start_index) |->
                          split(entries[start_index + j], Sep) ], RecordOk)
       ELSE << >>

\* What mega-transfers writes: lines, each a sequence of fields put together
\* with the column separator, each line ended by the line terminator (the
\* last one only when `closed`).
RECURSIVE Join(_, _)
Join(parts, sep) ==
    IF parts = << >> THEN << >>
    ELSE IF Len(parts) = 1 THEN parts[1]
    ELSE parts[1] \o sep \o Join(Tail(parts), sep)

Render(e) ==
    Join([ k \in 1..Len(e.lines) |-> Join(e.lines[k], Sep) ], e.eol)
        \o (IF e.closed /\ e.lines # << >> THEN e.eol ELSE << >>)

HeaderLine == << << "DESTINYPATH" >>, << "STATE" >>, << "PROGRESS" >> >>

\* the names of the eight states
ValidStates ==
    { << "QUEUED" >>, << "ACT", "IVE" >>, << "PAUSED" >>, << "RETRYING" >>,
      << "COMPLETING" >>, << "COMPLETED" >>, << "CANCELLED" >>, << "FAILED" >> }

\* the state fields of the lines tried: two state names, a piece of a state
\* name, the empty field, a word that is no state
StateFields ==
    { << "ACT", "IVE" >>, << "COMPLETED" >>, << "ACT" >>, << >>, << "x" >> }

ProgressFields == { << "4" >>, << "4", "SP" >> }

\* the lines tried after the first line: records of three fields, lines of two
\* and of four fields, an empty line, and a record whose state field is a bar
BodyLines ==
    { << << "a" >>, st, pr >> : st \in StateFields, pr \in ProgressFields }
      \cup { << << "a" >>, << "ACT", "IVE" >> >>,
             << << "a" >>, << "ACT", "IVE" >>, << "4" >>, << "4" >> >>,
             << << >> >>,
             << << "a" >>, << "|" >>, << "4" >> >> }

\* how the output begins: the header, the header after a blank, another
\* header, a line of text and then the header, or no header at all
FirstLines ==
    { << HeaderLine >>,
      << << << "SP", "DESTINYPATH" >>, << "STATE" >>, << "PROGRESS" >> >> >>,
      << << << "STATE" >>, << "STATE" >>, << "PROGRESS" >> >> >>,
      << << << "x" >> >>, HeaderLine >>,
      << >> }

Emissions ==
    { [lines |-> first \o body, eol |-> eol, closed |-> closed] :
        first \in FirstLines,
        body \in UNION { [1..n -> BodyLines] : n \in 0..MaxLines },
        eol \in { << "NL" >>, << "CR", "NL" >> },
        closed \in BOOLEAN }

InitParser ==
    /\ MainIdle
    /\ emitted \in Emissions
    /\ output = Render(emitted)
    /\ download_infos = << >>
    /\ parserDone = FALSE
    /\ inventory = << >> /\ target_folder = {} /\ mega_download_paths = << >>
    /\ runs = 0
    /\ LsIdle
    /\ GlIdle

Parse ==
    /\ ~parserDone
    /\ download_infos' = parse_mega_transfers_output(output)
    /\ parserDone' = TRUE
    /\ UNCHANGED << mainVars, overdue, emitted, output, inventory,
                    target_folder, mega_download_paths, runs, lsVars,
                    vpn, chip >>

NextParser == Parse

SpecParser == InitParser /\ [][NextParser]_vars

\* ------------------------------ list_all_files and the size probe on their own
\* longest listing tried: the number of lines mega-find prints
MaxListed == 2

DigitChars == << "0", "1", "2", "3", "4", "5", "6", "7", "8", "9" >>

Digits == { DigitChars[d] : d \in 1..10 }

DigitVal(c) == CHOOSE d \in 0..9 : DigitChars[d + 1] = c

\* the units the size pattern knows
Units == {"B", "KB", "MB", "GB"}

\* the index after the longest run of digits of s that starts at k
RECURSIVE DigitRun(_, _)
DigitRun(s, k) ==
    IF k <= Len(s) /\ s[k] \in Digits THEN DigitRun(s, k + 1) ELSE k

\* (\d+\.\d+) (B|KB|MB|GB) tried at position k of s: the index of the unit,
\* 0 when the pattern does not match there
UnitAt(s, k) ==
    LET a == DigitRun(s, k)
        b == DigitRun(s, a + 1)
    IN IF /\ a > k /\ a <= Len(s) /\ s[a] = "."
          /\ b > a + 1 /\ b + 1 <= Len(s) /\ s[b] = "SP"
          /\ s[b + 1] \in Units
       THEN b + 1 ELSE 0

\* size_pattern.search(s): the leftmost match ("none" when there is none);
\* the pattern of list_all_files is enclosed in brackets, the pattern of the
\* size probe is not
size_pattern_search(s, brackets) ==
    LET hits == IF brackets
                THEN { k \in 1..Len(s) :
                         /\ s[k] = "("
                         /\ UnitAt(s, k + 1) # 0
                         /\ UnitAt(s, k + 1) < Len(s)
                         /\ s[UnitAt(s, k + 1) + 1] = ")" }
                ELSE { k \in 1..Len(s) : UnitAt(s, k) # 0 }
    IN IF hits = {} THEN [found |-> FALSE]
       ELSE LET k == Min(hits)
                first == IF brackets THEN k + 1 ELSE k
                u == UnitAt(s, first)
            IN [found |-> TRUE, start |-> k,
                group1 |-> SubSeq(s, first, u - 2), group2 |-> s[u]]

RECURSIVE Number(_)
Number(digs) ==
    IF digs = << >> THEN 0
    ELSE Number(SubSeq(digs, 1, Len(digs) - 1)) * 10 + DigitVal(digs[Len(digs)])

\* float(text) of a decimal with one or two digits after the point.  A size
\* is m * 2^e hundredths of a MB, as a binary floating-point number is a
\* mantissa and an exponent of two
float(text) ==
    LET dot == Min({ k \in 1..Len(text) : text[k] = "." })
        frac == SubSeq(text, dot + 1, Len(text))
    IN [m |-> Number(SubSeq(text, 1, dot - 1)) * 100
                + (IF Len(frac) = 1 THEN Number(frac) * 10
                   ELSE Number(SubSeq(frac, 1, 2))),
        e |-> 0]

\* x * 2^k
Scaled(x, k) == [m |-> x.m, e |-> x.e + k]

\* mutant: `/= 1024 * 1024` read as (file_size / 1024) * 1024
normalize_left_to_right(file_size, unit) ==
    CASE unit = "GB" -> Scaled(file_size, 10)
      [] unit = "KB" -> Scaled(file_size, -10)
      [] unit = "B"  -> Scaled(file_size, -10 + 10)
      [] OTHER       -> file_size

\* megadownload.py:389-394 and 203-208: `*= 1024` for GB, `/= 1024` for KB,
\* `/= 1024 * 1024` for B, nothing for MB
normalize(file_size, unit) ==
    CASE unit = "GB" -> Scaled(file_size, 10)
      [] unit = "KB" -> Scaled(file_size, -10)
      [] unit = "B"  -> Scaled(file_size, -(10 + 10))
      [] OTHER       -> file_size

\* posixpath.join(*parts): a part is put after a '/' unless the path so far is
\* empty or ends with one
RECURSIVE os_path_join(_)
os_path_join(parts) ==
    IF Len(parts) = 1 THEN parts[1]
    ELSE LET path == os_path_join(SubSeq(parts, 1, Len(parts) - 1))
             b == parts[Len(parts)]
         IN IF path = << >> \/ path[Len(path)] = "/" THEN path \o b
            ELSE path \o << "/" >> \o b

\* the characters shlex.quote leaves alone
SafeChars == Digits \cup {"a", "b", "d", "/", "."}

\* shlex.quote
shlex_quote(s) ==
    IF s = << >> THEN << "'", "'" >>
    ELSE IF \A k \in 1..Len(s) : s[k] \in SafeChars THEN s
    ELSE << "'" >> \o s \o << "'" >>

\* megadownload.py:383-400 for one line whose size the pattern found
remote_entry(entry, match) ==
    LET file_size == normalize(float(match.group1), match.group2)
        split_entry == split(strip(SubSeq(entry, 1, match.start - 1)), << "/" >>)
    IN Entry(shlex_quote(os_path_join(split_entry)),
             split_entry[Len(split_entry)], file_size)

\* MegaCmdHelper.list_all_files: r is what spawn did, out the command's output.
\* `match.start()` of a line the pattern does not match is an AttributeError
list_all_files(r, out) ==
    IF r = "raised"
    THEN [done |-> TRUE, error |-> "ExceptionPexpect", entries |-> << >>]
    ELSE IF CheckedRaises(r)
    THEN [done |-> TRUE, error |-> "MegaDownloadException", entries |-> << >>]
    ELSE LET lines == split(strip(out), << "NL" >>)
             entries == [ k \in 1..Len(lines) |-> replace(lines[k], "CR") ]
             matches == [ k \in 1..Len(lines) |->
                            size_pattern_search(entries[k], TRUE) ]
         IN IF \E k \in 1..Len(lines) : ~matches[k].found
            THEN [done |-> TRUE, error |-> "AttributeError", entries |-> << >>]
            ELSE [done |-> TRUE, error |-> "none",
                  entries |-> [ k \in 1..Len(lines) |->
                                  remote_entry(entries[k], matches[k]) ]]

\* megadownload.py:197-210: the size get_file_info_from_link reads from the
\* PROGRESS column of the probe transfer
probe_file_size(text) ==
    LET match == size_pattern_search(text, FALSE)
    IN IF match.found
       THEN [done |-> TRUE, error |-> "none",
             size |-> normalize(float(match.group1), match.group2)]
       ELSE [done |-> TRUE, error |-> "MegaDownloadException",
             size |-> float(<< "0", ".", "0" >>)]

\* What mega-find -l prints for a file: its path and, in brackets, its size
\* with two digits after the point and a unit
RECURSIVE ToDigits(_)
ToDigits(n) ==
    IF n < 10 THEN << DigitChars[n + 1] >>
    ELSE ToDigits(n \div 10) \o << DigitChars[(n % 10) + 1] >>

\* a size of n hundredths as the agent writes it
FormatSize(n) ==
    ToDigits(n \div 100) \o << "." >>
        \o << DigitChars[((n % 100) \div 10) + 1], DigitChars[(n % 10) + 1] >>

\* the sizes tried, in hundredths of the unit
SizeValues == {150, 2005}

\* the remote paths tried: a file of the root, a file of a folder, a path
\* that starts with '/', a name with a blank
ListedPaths ==
    { << "a" >>, << "d", "/", "b" >>, << "/", "a" >>, << "a", "SP", "b" >> }

\* the lines tried: files with a size in one of the units of the pattern,
\* a size in another unit, and a line without a size
ListedLines ==
    { [path |-> p, value |-> v, unit |-> u] :
        p \in ListedPaths, v \in SizeValues, u \in Units }
      \cup { [path |-> << "a" >>, value |-> 150, unit |-> "TB"],
             [path |-> << "a" >>, value |-> 0, unit |-> "none"] }

ListingLine(l) ==
    IF l.unit = "none" THEN l.path
    ELSE l.path \o << "SP", "(" >> \o FormatSize(l.value)
                \o << "SP", l.unit, ")" >>

\* the output of mega-find: every line is ended by the line terminator
ListingOutput(ls) ==
    IF ls.lines = << >> THEN << >>
    ELSE Join([ k \in 1..Len(ls.lines) |-> ListingLine(ls.lines[k]) ], ls.eol)
            \o ls.eol

Listings ==
    { [child |-> c, lines |-> ls, eol |-> eol] :
        c \in ChildBehaviours,
        ls \in UNION { [1..n -> ListedLines] : n \in 0..MaxListed },
        eol \in { << "NL" >>, << "CR", "NL" >> } }

\* the PROGRESS column of the probe transfer: a percentage and, unless the
\* unit is "none", the size of the file
ProgressColumns ==
    { [value |-> v, unit |-> u] : v \in SizeValues, u \in Units }
      \cup { [value |-> 0, unit |-> "none"] }

ProgressText(p) ==
    << "4", ".", "0", "%" >>
        \o (IF p.unit = "none" THEN << >>
            ELSE << "SP", "o", "f", "SP" >> \o FormatSize(p.value)
                    \o << "SP", p.unit >>)

InitListing ==
    /\ MainIdle
    /\ emitted = << >>
    /\ output = << >> /\ download_infos = << >> /\ parserDone = FALSE
    /\ inventory = << >> /\ target_folder = {} /\ mega_download_paths = << >>
    /\ runs = 0
    /\ GlIdle
    /\ listing \in Listings
    /\ listed = [done |-> FALSE]
    /\ progress \in ProgressColumns
    /\ probed = [done |-> FALSE]

\* one call of list_all_files
List ==
    /\ ~listed.done
    /\ listed' = list_all_files(spawn(listing.child), ListingOutput(listing))
    /\ UNCHANGED << mainVars, overdue, emitted, output, download_infos,
                    parserDone, inventory, target_folder,
                    mega_download_paths, runs, listing, progress, probed,
                    vpn, chip >>

\* the size part of one call of get_file_info_from_link
ProbeSize ==
    /\ ~probed.done
    /\ probed' = probe_file_size(ProgressText(progress))
    /\ UNCHANGED << mainVars, overdue, emitted, output, download_infos,
                    parserDone, inventory, target_folder,
                    mega_download_paths, runs, listing, listed, progress,
                    vpn, chip >>

NextListing == List \/ ProbeSize

SpecListing == InitListing /\ [][NextListing]_vars

\* -------------------------------------- one folder link, with its scheduling
\* The threads of the program keep running: the main thread executes its next
\* statement, the reporter thread its next round.  The environment is held to
\* nothing but what the claims assume: a poll that the agent answers is
\* answered again and again, the query with --show-completed is answered in
\* the end, and pgrep and mega-transfers answer the reporter.  No transfer is
\* bound to make progress.
InitLive == InitDeadline

NextLive ==
    \/ ForceLogout
    \/ StartupCheck
    \/ Construct
    \/ Bind
    \/ Handler
    \/ DelSession
    \/ Shutdown
    \/ ListAndResolve
    \/ StartItem
    \/ Poll
    \/ ShowCompleted
    \/ QuotaKill
    \/ QuotaChangeIp
    \/ QuotaRestart
    \/ JoinAndRecord
    \/ AgentProgress
    \/ \E k \in Links : ReporterPoll(k)

\* one round of the reporter in which both commands completed: pgrep with
\* exit code 0 or 1, mega-transfers with exit code 0
ReporterAnswered(k) ==
    \E r1 \in PgrepResults \cap {"ok", "nonzero"} : ReporterPollWith(k, r1, "ok")

LiveFairness ==
    /\ WF_vars(ForceLogout) /\ WF_vars(StartupCheck)
    /\ WF_vars(Construct) /\ WF_vars(Bind)
    /\ WF_vars(Handler) /\ WF_vars(DelSession) /\ WF_vars(Shutdown)
    /\ WF_vars(ListAndResolve) /\ WF_vars(StartItem)
    /\ WF_vars(PollWith("ok", FALSE))
    /\ SF_vars(ShowCompletedWith("ok"))
    /\ WF_vars(QuotaKill) /\ WF_vars(QuotaChangeIp) /\ WF_vars(QuotaRestart)
    /\ WF_vars(JoinAndRecord)
    /\ \A k \in Links : WF_vars(ReporterAnswered(k))

SpecLive == InitLive /\ [][NextLive]_vars /\ LiveFairness

\* ===================================================== SpecGlinet
\* IpChangerGlinet.change_ip on its own: the router answers with its groups,
\* the peers of the chosen group and, after every start, a connection status.

\* how many failed status checks one call is followed through
MaxRounds == 3

\* the provider the driver constructs the changer with
vpn_provider == "Mullvad"

\* the answers of get_group_list
GroupLists ==
    LET Group == [group_name : {"Mullvad", "Other"}, group_id : {0, 1, 2}]
    IN  { << >> } \cup { << g >> : g \in Group }
                  \cup { << g, h >> : g \in Group, h \in Group }

\* the for loop over the groups: the id of the last group of that name
find_group_id(groups, provider) ==
    LET hits == { k \in 1..Len(groups) : groups[k].group_name = provider }
    IN  IF hits = {} THEN None
        ELSE groups[CHOOSE k \in hits : \A j \in hits : j <= k].group_id

\* `not group_id`
group_missing(group_id) == group_id = None \/ group_id = 0

\* a loop that leaves after its first status check, whatever it says
leave_after_first_check(st) == TRUE

\* the condition of the break
connected(st) == st = 1

InitGlinet ==
    /\ MainIdle
    /\ emitted = << >>
    /\ output = << >> /\ download_infos = << >> /\ parserDone = FALSE
    /\ inventory = << >> /\ target_folder = {} /\ mega_download_paths = << >>
    /\ runs = 0
    /\ LsIdle
    /\ vpn \in [groups : GroupLists, peers : SUBSET {1, 2}]
    /\ chip = NotCalled

\* login, the lookup of the provider's group, the peers of the group
Lookup ==
    /\ chip.pc = "lookup"
    /\ LET group_id == find_group_id(vpn.groups, vpn_provider)
       IN  IF group_missing(group_id)
           THEN chip' = [chip EXCEPT !.pc = "done",
                                     !.outcome = "ChangeIpException",
                                     !.group_id = group_id]
           ELSE chip' = [chip EXCEPT !.pc = "loop", !.group_id = group_id]
    /\ UNCHANGED << mainVars, overdue, emitted, output, download_infos,
                    parserDone, inventory, target_folder,
                    mega_download_paths, runs, lsVars, vpn >>

\* the head of the loop: stop the connection, start a random peer
StopAndStart ==
    /\ chip.pc = "loop"
    /\ IF vpn.peers = {}
       THEN chip' = [chip EXCEPT !.pc = "done", !.outcome = "IndexError",
                                 !.stops = @ + 1]
       ELSE \E random_peer \in vpn.peers :
                chip' = [chip EXCEPT !.pc = "wait", !.stops = @ + 1,
                                     !.started = Append(@, random_peer)]
    /\ UNCHANGED << mainVars, overdue, emitted, output, download_infos,
                    parserDone, inventory, target_folder,
                    mega_download_paths, runs, lsVars, vpn >>

\* the tail of the loop: the status after the wait (1 is connected);
\* connected leaves the loop, logs out and returns, anything else goes round
\* again
StatusCheck ==
    /\ chip.pc = "wait"
    /\ \E current_vpn_connection_status \in {0, 1, 2} :
        /\ current_vpn_connection_status # 1 => chip.rounds < MaxRounds
        /\ IF connected(current_vpn_connection_status)
           THEN chip' = [chip EXCEPT !.pc = "done", !.outcome = "returned",
                                     !.status = current_vpn_connection_status]
           ELSE chip' = [chip EXCEPT !.pc = "loop", !.rounds = @ + 1,
                                     !.status = current_vpn_connection_status]
    /\ UNCHANGED << mainVars, overdue, emitted, output, download_infos,
                    parserDone, inventory, target_folder,
                    mega_download_paths, runs, lsVars, vpn >>

NextGlinet ==
    \/ Lookup
    \/ StopAndStart
    \/ StatusCheck

SpecGlinet == InitGlinet /\ [][NextGlinet]_vars

\* ================================================================ claims
FolderLink(i) == i \in 1..Len(links) /\ ~is_file_link(links[i])
FileLink(i) == i \in 1..Len(links) /\ is_file_link(links[i])

ItemPcs == {"f_poll", "q_kill", "q_chip", "q_start", "f_showc", "f_join"}

\* the threshold of the proactive IP rotation the specification describes
IpRotationThreshold == 3

\* C1: once a session object has been finalized, the tmp folder it created
\* does not exist any more.
C1_TmpFolderGone ==
    \A i \in Links : sess[i].life = "finalized" => sess[i].tmp = "deleted"

\* C2: an exception of one link is caught, and every later link is still
\* processed in argument order: its constructor is called, and its download
\* operation when the constructor returned.
C2_LaterLinksProcessed ==
    /\ linkIdx >= 1 => pc # "crashed"
    /\ \A i \in 1..Len(links) :
         /\ ctor[i] # "no" => \A j \in 1..(i - 1) : ctor[j] # "no"
         /\ i < linkIdx =>
              /\ ctor[i] # "no"
              /\ ctor[i] = "ok" => dl[i] \in {"returned", "raised"}
              /\ (ctor[i] = "failed" \/ dl[i] = "raised") => i \in caught
    /\ pc \in {"shutdown", "exit"} => linkIdx = Len(links) + 1

C2_Witness ==
    /\ pc = "exit"
    /\ Len(links) = 2
    /\ 1 \in caught /\ dl[1] = "raised"
    /\ ctor[2] = "ok" /\ dl[2] = "returned"

\* C3: every file of the destination folder was there before the run or is
\* the complete file of a work item whose transfer ended with NO_ERROR.
C3_OnlyCompletedFilesMoved ==
    \A f \in dest : f.from = "before" \/ (f.from = "NO_ERROR" /\ ~f.part)

RECURSIVE SumOk(_)
SumOk(k) ==
    IF k <= 1 THEN 0
    ELSE SumOk(k - 1) + (IF dstatus[k - 1][2] = "NO_ERROR"
                         THEN queue[k - 1].size ELSE 0)

\* C5: when the transfer of the first item whose size takes the cumulated
\* volume to the threshold starts, the IP has been changed once and the
\* cumulative counter is 0.
C5_ThresholdRotation ==
    ( /\ pc = "f_poll" /\ retrying = 0
      /\ SumOk(qi) < IpRotationThreshold
      /\ SumOk(qi) + queue[qi].size >= IpRotationThreshold )
    => (changeIps = 1 /\ total_downloaded_data = 0)

C7_AbortWithoutWork ==
    /\ pc = "aborted" =>
         /\ ~force_logout
         /\ linkIdx = 0
         /\ \A i \in Links : sess[i].life = "unborn" /\ ctor[i] = "no"
         /\ ~worked /\ changeIps = 0
    /\ (~force_logout /\ agentSession = -1) =>
         /\ pc \in {"main", "check", "aborted", "crashed"}
         /\ \A i \in Links : sess[i].life = "unborn"
         /\ ~worked
    /\ (force_logout /\ pc \notin {"main", "crashed"}) =>
         /\ agentSession # -1
         /\ pc # "aborted"
         /\ (pc # "check" /\ RouterBranch = "loop") => linkIdx >= 1

C7_Witness ==
    /\ pc = "aborted"
    /\ ~force_logout
    /\ agentSession = -1

\* C8: when download_files has returned, every item of the queue was attempted
\* at most once and in queue order, and an item that did not end with NO_ERROR
\* has no file of its display name in the destination folder.
C8_FailedItemStaysMissing ==
    pc = "f_del" =>
        /\ Len(dstatus) <= Len(queue)
        /\ \A k \in 1..Len(dstatus) :
             /\ dstatus[k][1] = queue[k].path
             /\ dstatus[k][2] # "NO_ERROR" =>
                  ~folder_contains_file(dest, queue[k].name)

\* C9: when download_file leaves its last step, a status of DOWNLOAD_FAILED
\* is raised to the caller, TIMEOUT_EXCEEDED returns with the partial files
\* purged, and neither of the two moves a file to the destination.
C9_FailedIsFatal ==
    [][ (pc = "s_join" /\ pc' # "s_join") =>
          /\ status = "DOWNLOAD_FAILED" => pc' = "handler"
          /\ status = "TIMEOUT_EXCEEDED" =>
               /\ pc' # "handler"
               /\ \A f \in tmpFiles'[linkIdx] : ~f.part
          /\ status # "NO_ERROR" => dest' = dest ]_vars

C11_TimeoutOutcome ==
    \A k \in 1..Len(dstatus) :
        overdue = k => dstatus[k][2] = "TIMEOUT_EXCEEDED"

\* C12: in single-file mode no transfer of the link has been started when
\* change_ip is called, and once the download's own transfer is started
\* change_ip has been called exactly once.
C12_RotateBeforeTransfer ==
    FileLink(linkIdx) =>
        /\ pc = "s_chip" => (probe = "none" /\ xfer[1] = "none")
        /\ pc \in {"s_get", "s_wait", "s_join"} => changeIps = 1

\* C13: at most one progress reporter is alive, and none is alive when the
\* main thread is at the start of a link, at the start of an item, or has
\* left download_files.
C13_OneReporterJoined ==
    /\ Cardinality({ i \in Links : reporter[i] = "running" }) <= 1
    /\ pc \in {"construct", "bind", "f_start", "f_del"} =>
         \A i \in Links : reporter[i] # "running"

\* C14: the reporter of the current item stops polling only at a poll that
\* finds no record of the current file.
C14_ReporterEndsOnNoRecord ==
    [][ \A k \in Links :
          ( /\ reporter[k] = "running" /\ reporter'[k] = "ended"
            /\ k = linkIdx /\ qi \in 1..Len(queue) )
          => MatchedState(ActiveRecords, queue[qi].name) = "none" ]_vars

\* C15: in folder mode the files that were in the destination before the run
\* stay there, and when download_files has returned with NO_ERROR for every
\* item and the session ends, the destination holds a file for every item's
\* display name and the tmp folder is gone.
C15_AllOkComplete ==
    [][ /\ FolderLink(linkIdx) =>
             \A f \in dest : f.from = "before" => f \in dest'
        /\ ( /\ pc = "f_del" /\ pc' # "f_del"
             /\ Len(queue) >= 1 /\ Len(dstatus) = Len(queue)
             /\ \A k \in 1..Len(dstatus) : dstatus[k][2] = "NO_ERROR" )
           => /\ \A k \in 1..Len(queue) :
                    folder_contains_file(dest', queue[k].name)
              /\ sess'[linkIdx].tmp = "deleted" ]_vars

\* C20: when the target folder does not exist no constructor returns, no
\* constructor has issued a logout or a login, and no listing, transfer or
\* IP change is ever issued.
C20_NoTargetNoCommands ==
    ~targetExists =>
        /\ \A i \in Links :
             /\ ctor[i] # "ok" /\ dl[i] = "no"
             /\ sess[i].logouts = sess[i].delLogouts
        /\ bound = 0
        /\ ~worked /\ changeIps = 0 /\ probe = "none"
        /\ pc \notin DownloadPcs \cup {"bind", "f_list", "f_del", "s_info",
                                       "s_chip", "s_get"}

C20_Witness ==
    /\ ~targetExists
    /\ pc = "handler"
    /\ ctor[linkIdx] = "failed"
    /\ sess[linkIdx].life = "alive" /\ sess[linkIdx].logouts = 0

\* the positions of the inventory whose display name is the name of no file
\* under the target folder
MissingPositions ==
    { k \in 1..Len(inventory) :
        \A f \in target_folder : FileName(f) # inventory[k].name }

\* the j-th smallest element of a set of numbers
Nth(S, j) == CHOOSE x \in S : Cardinality({ y \in S : y <= x }) = j

\* C16: the resolver returns exactly the inventory entries whose display name
\* is the name of no file under the target folder (subfolders included), in
\* the order of the inventory, each entry unchanged.
C16_ResolverExact ==
    runs >= 1 =>
        /\ Len(mega_download_paths) = Cardinality(MissingPositions)
        /\ \A j \in 1..Len(mega_download_paths) :
             mega_download_paths[j] = inventory[Nth(MissingPositions, j)]

C16_Witness ==
    /\ runs >= 1
    /\ Len(inventory) = 3
    /\ inventory[2].name = NameB
    /\ TargetFile(NameB, FALSE, 1) \in target_folder
    /\ TargetFile(NameA, TRUE, 0) \in target_folder
    /\ mega_download_paths = << inventory[1], inventory[3] >>

C18_OnlyValidStates ==
    parserDone =>
        \A j \in 1..Len(download_infos) :
            /\ Len(download_infos[j]) = 3
            /\ download_infos[j][2] \in ValidStates

\* a line of three fields with a valid state
WellFormed(line) == Len(line) = 3 /\ line[2] \in ValidStates

\* the lines that hold the column separator
DelimLines == { k \in 1..Len(emitted.lines) : Len(emitted.lines[k]) >= 2 }

\* the input is the header line followed by at least one line, all well-formed
HeaderThenRecords ==
    /\ Len(emitted.lines) >= 2
    /\ emitted.lines[1] = HeaderLine
    /\ \A k \in 2..Len(emitted.lines) : WellFormed(emitted.lines[k])

\* line k as the parser sees it: the output's leading whitespace is stripped
\* from its first line and its trailing whitespace from its last line
Stripped(k) ==
    LET l == emitted.lines[k]
        n == Len(emitted.lines)
    IN [ i \in 1..Len(l) |->
           IF k = 1 /\ i = 1 /\ (n > 1 \/ Len(l) > 1) THEN lstrip(l[i])
           ELSE IF k = n /\ i = Len(l) /\ (n > 1 \/ Len(l) > 1) THEN rstrip(l[i])
           ELSE l[i] ]

\* C19: for the header line followed by k >= 1 well-formed lines the parser
\* returns those k records in order, each field unchanged but for the
\* whitespace that ends the output; for an input without lines, without a
\* line that holds the separator, or whose first such line is not the header
\* once the whitespace that begins the output is stripped, it returns the
\* empty sequence.
C19_ParserRoundTrip ==
    parserDone =>
        /\ HeaderThenRecords =>
             /\ Len(download_infos) = Len(emitted.lines) - 1
             /\ \A j \in 1..Len(download_infos) :
                  download_infos[j] = Stripped(j + 1)
        /\ ( \/ emitted.lines = << >>
             \/ DelimLines = {}
             \/ Stripped(Min(DelimLines)) # HeaderLine )
           => download_infos = << >>

C19_Witness ==
    /\ parserDone
    /\ emitted.lines = << HeaderLine,
                          << << "a" >>, << "ACT", "IVE" >>, << "4" >> >>,
                          << << "a" >>, << "COMPLETED" >>, << "4" >> >> >>
    /\ emitted.eol = << "CR", "NL" >>
    /\ download_infos = << << << "a" >>, << "ACT", "IVE" >>, << "4" >> >>,
                           << << "a" >>, << "COMPLETED" >>, << "4" >> >> >>

\* C19 as the specification words it: every field of the k records is
\* unchanged, and an input whose first line holding the separator is not
\* exactly the header yields the empty sequence.
C19_ParserExact ==
    parserDone =>
        /\ HeaderThenRecords =>
             /\ Len(download_infos) = Len(emitted.lines) - 1
             /\ \A j \in 1..Len(download_infos) :
                  download_infos[j] = emitted.lines[j + 1]
        /\ ( \/ emitted.lines = << >>
             \/ DelimLines = {}
             \/ emitted.lines[Min(DelimLines)] # HeaderLine )
           => download_infos = << >>
\* C21: the process runner never raises: every call of it returns a triple.
\* download_file_from_folder turns every triple its mega-get -q returns into
\* a status, so the start of an item's transfer is never left by an exception.
C21_RunnerNeverRaises ==
    [][pc = "f_start" => pc' # "handler"]_vars

\* C22: whenever the listing command times out, cannot be spawned or ends
\* with a non-zero exit code, list_all_files fails with the listing error
\* (MegaDownloadException) and returns no inventory.
C22_ListingError ==
    listed.done /\ listing.child # "exit0"
        => listed.error = "MegaDownloadException" /\ listed.entries = << >>

\* the factor the claim names for a unit, as a fraction
Factor(unit) ==
    CASE unit = "GB" -> [num |-> 1024, den |-> 1]
      [] unit = "KB" -> [num |-> 1, den |-> 1024]
      [] unit = "B"  -> [num |-> 1, den |-> 1048576]
      [] OTHER       -> [num |-> 1, den |-> 1]

\* size = value * f.num / f.den, for a size m * 2^e
IsValueTimes(size, value, f) ==
    /\ size.m = value
    /\ IF size.e >= 0 THEN (2 ^ size.e) * f.den = f.num
                      ELSE f.den = (2 ^ (0 - size.e)) * f.num

\* C23: the size of the entry of every listed line that carries (value unit)
\* is value*1024 for GB, value for MB, value/1024 for KB and value/1048576
\* for B, and the size the single-file probe reads is normalized the same way.
C23_SizeNormalization ==
    /\ listed.done /\ listed.error = "none"
         => /\ Len(listed.entries) = Len(listing.lines)
            /\ \A k \in 1..Len(listing.lines) :
                 IsValueTimes(listed.entries[k].size, listing.lines[k].value,
                              Factor(listing.lines[k].unit))
    /\ probed.done /\ probed.error = "none"
         => IsValueTimes(probed.size, progress.value, Factor(progress.unit))

\* a listing of a B line and a GB line has been read, and a probe of a KB size
C23_Witness ==
    /\ listed.done /\ listed.error = "none"
    /\ Len(listed.entries) = 2
    /\ listing.lines[1].unit = "B" /\ listing.lines[2].unit = "GB"
    /\ probed.done /\ probed.error = "none"
    /\ progress.unit = "KB"

\* the file name of a remote path: what follows its last '/'
Basename(path) == LET parts == split(path, << "/" >>) IN parts[Len(parts)]

\* C30: when the listing command ends with exit code 0, list_all_files does
\* not fail: it returns one entry per listed file, in the order of the
\* listing, and an empty inventory when nothing is listed.
C30_ListingSucceeds ==
    /\ listed.done /\ listing.child = "exit0"
    /\ \A k \in 1..Len(listing.lines) : listing.lines[k].unit \in Units
    => /\ listed.error = "none"
       /\ Len(listed.entries) = Len(listing.lines)
       /\ \A k \in 1..Len(listing.lines) :
            listed.entries[k].name = Basename(listing.lines[k].path)

\* C24: when the query with --show-completed ends the polling loop and the
\* current item's transfer is not COMPLETED (it is in another state, or the
\* agent has no record of it), the item is resolved DOWNLOAD_FAILED.
C24_ShowCompletedOutcome ==
    [][pc = "f_showc" /\ pc' = "f_join" /\ xfer[qi] # "COMPLETED"
          => status' = "DOWNLOAD_FAILED"]_vars

\* C27: an item's outcome is decided by the records of its own transfer: the
\* quota reaction starts only when the item's transfer is RETRYING, and the
\* item becomes NO_ERROR only when its transfer is COMPLETED.
C27_OwnRecordsDecide ==
    [][/\ (pc = "f_poll" /\ pc' = "q_kill" => xfer[qi] = "RETRYING")
       /\ (pc \in ItemPcs /\ status # "NO_ERROR" /\ status' = "NO_ERROR"
             => xfer[qi] = "COMPLETED")]_vars

\* C25: kill_mega_cmd_server raises whenever its command fails, so the quota
\* path goes on from the termination to the IP change only when the
\* background server has been terminated.
C25_NoIpChangeAfterFailedKill ==
    [][pc = "q_kill" /\ pc' = "q_chip" => ~serverUp']_vars

\* C26: whenever a folder session is about to issue the inventory listing or
\* the transfer command of an item, the agent is logged in to that session's
\* link: no logout has been issued since the session's login.
C26_LoggedInToOwnLink ==
    pc \in {"f_list", "f_start"} /\ FolderLink(linkIdx)
        => agentSession = linkIdx

\* the polling loop of download_file_from_folder
InLoop == pc \in {"f_poll", "f_showc", "q_kill", "q_chip", "q_start"}

\* C28: once the agent holds the current item's transfer in a final state, the
\* polling loop terminates (here for a queue of files of different names).
C28_PollingTerminates ==
    (/\ InLoop
     /\ xfer[qi] \in {"COMPLETED", "FAILED"}
     /\ \A i, j \in 1..Len(queue) : i # j => queue[i].name # queue[j].name)
        ~> ~InLoop

\* C29: when the IP change has failed in the quota path with the background
\* server terminated, the run still ends: the program reaches its exit with
\* no reporter running.
C29_RunEndsAfterIpChangeFailure ==
    (pc = "handler" /\ changeIps > starts /\ ~serverUp)
        ~> (pc = "exit" /\ \A k \in Links : reporter[k] # "running")

\* C31: the probe transfer of get_file_info_from_link is not left behind: it is
\* not active when the real transfer of the file link is prepared or under
\* way, nor when the driver starts the next link.
C31_ProbeCancelled ==
    \/ pc \in {"s_chip", "s_get", "s_wait", "s_join"}
    \/ (pc = "construct" /\ linkIdx > 1)
    => probe # "active"

\* C32: the glinet change_ip returns only when the latest status check, made
\* after the latest start of a peer, said connected; a status check that did
\* not say connected never ends the call: the connection is stopped and a
\* peer of the group is started once more, at every count of failed checks;
\* and when the provider is not among the router's groups the call raises
\* ChangeIpException having stopped and started nothing.
C32_VpnChangeIp ==
    /\ chip.outcome = "returned" =>
          /\ chip.status = 1
          /\ Len(chip.started) = chip.rounds + 1
          /\ chip.stops = Len(chip.started)
    /\ chip.status \notin {None, 1} =>
          /\ chip.outcome = "none"
          /\ chip.pc = "loop" =>
                chip.stops = chip.rounds /\ Len(chip.started) = chip.rounds
          /\ chip.pc = "wait" =>
                chip.stops = chip.rounds + 1
                /\ Len(chip.started) = chip.rounds + 1
          /\ chip.pc \in {"loop", "wait"}
    /\ \A k \in 1..Len(chip.started) : chip.started[k] \in vpn.peers
    /\ (\A k \in 1..Len(vpn.groups) :
            vpn.groups[k].group_name # vpn_provider)
       /\ chip.pc # "lookup" =>
          /\ chip.outcome = "ChangeIpException"
          /\ chip.started = << >>
          /\ chip.stops = 0

\* the call returned after as many failed status checks as are followed
C32_Witness ==
    /\ chip.outcome = "returned"
    /\ chip.rounds = MaxRounds
    /\ Len(chip.started) = MaxRounds + 1

====
